---------------------------- MODULE Spec2Model ----------------------------
(***************************************************************************)
(* A model of btfs (src/src/btfs.cc): a torrent exposed as a read-only     *)
(* FUSE filesystem.  The model covers                                      *)
(*   - the sliding-window piece-priority scheduler (jump / advance),       *)
(*   - the decomposition of a read into Parts (Read::Read) and the         *)
(*     tracker protocol (Read::trigger / copy / finished / read),          *)
(*   - the alert thread (alert_queue_loop and its handlers), the FUSE      *)
(*     read threads, the one mutex "lock" and the condition "signal",      *)
(*   - btfs_destroy (pthread_cancel + pthread_join).                       *)
(* The torrent engine (libtorrent) is the environment: it owns have_piece, *)
(* the piece priorities, the pending read_piece requests and the alert     *)
(* queue.                                                                  *)
(*                                                                         *)
(* All byte quantities are drawn from values an int holds, so the          *)
(* conversions of off_t / size_t arguments to the int parameters of        *)
(* Read::Read (line 400) are value-preserving in every modelled call.      *)
(***************************************************************************)
EXTENDS Integers, Sequences, FiniteSets, TLC

VARIABLES
    ti,         \* handle.get_torrent_info(): piece_length and the file list
    meta,       \* engine: "none" (not added), "added" (no metadata yet), "ready"
    have,       \* engine: the set of pieces for which have_piece() is true
    prio,       \* engine: piece index -> piece priority
    reqs,       \* engine: pieces with a read_piece() request not yet answered
    alerts,     \* engine: the alert queue (session->pop_alert takes the head)
    cursor,     \* line 52
    files,      \* line 54: path -> file index
    dirs,       \* line 55: path -> set of child names
    reads,      \* line 49: the list of pending Read trackers
    rd,         \* per FUSE read thread: position, arguments, Parts, result
    lock,       \* line 57: owner of the mutex, or "free"
    apc,        \* alert thread: position
    cur,        \* alert thread: the alert popped at line 283
    dpc,        \* btfs_destroy: position
    dec,        \* the Parts built by the Read constructor under test
    wop         \* the last scheduler call made directly, with its priority calls

vars == <<ti, meta, have, prio, reqs, alerts, cursor, files, dirs, reads, rd,
          lock, apc, cur, dpc, dec, wop>>

-----------------------------------------------------------------------------
(* Bounds of the model *)

\* largest file size, in bytes, of the torrents the Read constructor is run on
MaxFileSize == 5
\* largest offset and length passed to the Read constructor under test
MaxArg == 7
\* number of pieces of the torrents the scheduler is run on alone
WindowPieces == 4
\* capacity of the alert queue in the model
MaxAlerts == 1

\* line 81: the byte budget of the urgent sub-window
UrgentBytes == 2097152
\* lines 85, 89: the two priorities jump assigns
PrioUrgent == 7
PrioNormal == 1
\* libtorrent's priority of a piece that is not downloaded (file_priority 0)
PrioNone == 0

Min(a, b) == IF a < b THEN a ELSE b

-----------------------------------------------------------------------------
(* Torrent geometry: libtorrent::torrent_info as the code uses it *)

NumFiles == Len(ti.files)

RECURSIVE SumSizes(_)
SumSizes(n) == IF n = 0 THEN 0 ELSE SumSizes(n - 1) + ti.files[n].size

\* file_at(index).size; file indices are 0-based in the code
FileSize(index) == ti.files[index + 1].size
\* file_at(index).offset: the byte offset of the file inside the torrent
FileOffset(index) == SumSizes(index)
TotalSize == SumSizes(NumFiles)
PieceLength == ti.piece_length
NumPieces == (TotalSize + PieceLength - 1) \div PieceLength
Pieces == 0 .. (NumPieces - 1)

\* torrent_info::piece_size: the last piece holds what is left
PieceSize(p) ==
    IF p = NumPieces - 1 THEN TotalSize - p * PieceLength ELSE PieceLength

\* torrent_info::map_file(index, offset, size) -> peer_request
MapFile(index, offset, size) ==
    [piece  |-> (FileOffset(index) + offset) \div PieceLength,
     start  |-> (FileOffset(index) + offset) % PieceLength,
     length |-> size]

-----------------------------------------------------------------------------
(* Read::Read, lines 98-115.  buf is the offset of the destination inside  *)
(* the caller's buffer.                                                    *)

\* the constructor without the std::min of line 107: a Part runs to the end
\* of its piece
RECURSIVE ReadPartsWholePiece(_, _, _, _)
ReadPartsWholePiece(buf, index, offset, size) ==
    IF size > 0 /\ offset < FileSize(index)
    THEN LET part == MapFile(index, offset, size)
             len  == PieceSize(part.piece) - part.start
         IN  <<[piece |-> part.piece, start |-> part.start, length |-> len,
                buf |-> buf, filled |-> FALSE, writes |-> 0]>>
             \o ReadPartsWholePiece(buf + len, index, offset + len, size - len)
    ELSE <<>>

\* the constructor with the loop guard offset <= file size
RECURSIVE ReadPartsPastEnd(_, _, _, _)
ReadPartsPastEnd(buf, index, offset, size) ==
    IF size > 0 /\ offset <= FileSize(index)
    THEN LET part == MapFile(index, offset, size)
             len  == Min(PieceSize(part.piece) - part.start, part.length)
         IN  <<[piece |-> part.piece, start |-> part.start, length |-> len,
                buf |-> buf, filled |-> FALSE, writes |-> 0]>>
             \o ReadPartsPastEnd(buf + len, index, offset + len, size - len)
    ELSE <<>>

RECURSIVE ReadParts(_, _, _, _)
ReadParts(buf, index, offset, size) ==
    IF size > 0 /\ offset < FileSize(index)
    THEN LET part == MapFile(index, offset, size)
             len  == Min(PieceSize(part.piece) - part.start, part.length)
         IN  <<[piece |-> part.piece, start |-> part.start, length |-> len,
                buf |-> buf, filled |-> FALSE, writes |-> 0]>>
             \o ReadParts(buf + len, index, offset + len, size - len)
    ELSE <<>>

\* btfs_read, lines 400-402: the size handed to the constructor
ClampSize(index, size) == Min(size, FileSize(index))

\* Read::size, lines 141-149
RECURSIVE SizeOf(_)
SizeOf(parts) ==
    IF parts = <<>> THEN 0 ELSE Head(parts).length + SizeOf(Tail(parts))

\* Read::finished answering true as soon as one Part is filled
FinishedOnFirstPart(parts) == \E i \in 1 .. Len(parts) : parts[i].filled

\* Read::finished, lines 132-139
Finished(parts) == \A i \in 1 .. Len(parts) : parts[i].filled

-----------------------------------------------------------------------------
(* The scheduler, lines 60-96 *)

\* move_to_next_unfinished without the have_piece test of line 63
MoveNowhere(piece) == piece

\* move_to_next_unfinished: the value left in "piece"; the call returns true
\* exactly when that value is below num_pieces()
RECURSIVE MoveToNextUnfinished(_)
MoveToNextUnfinished(piece) ==
    IF piece < NumPieces
    THEN IF piece \notin have THEN piece ELSE MoveToNextUnfinished(piece + 1)
    ELSE piece

\* handle.piece_priority(index, p): the engine drops an index outside the
\* torrent; the call is logged either way
SetPriority(w, index, p) ==
    [prio  |-> IF index \in Pieces THEN [w.prio EXCEPT ![index] = p] ELSE w.prio,
     calls |-> Append(w.calls, [piece |-> index, prio |-> p]),
     tail  |-> index + 1]

\* lines 81-86 without the walk of line 82: the priority goes to the piece at
\* tail, downloaded or not
RECURSIVE UrgentLoopNoSkip(_, _)
UrgentLoopNoSkip(b, w) ==
    IF b < UrgentBytes
    THEN IF w.tail >= NumPieces
         THEN [w |-> w, returned |-> TRUE]
         ELSE UrgentLoopNoSkip(b + PieceLength,
                               SetPriority(w, w.tail, PrioUrgent))
    ELSE [w |-> w, returned |-> FALSE]

\* lines 81-86: returns the window state, and whether jump returned at line 83
RECURSIVE UrgentLoop(_, _)
UrgentLoop(b, w) ==
    IF b < UrgentBytes
    THEN LET t == MoveToNextUnfinished(w.tail)
         IN  IF t >= NumPieces
             THEN [w |-> w, returned |-> TRUE]
             ELSE UrgentLoop(b + PieceLength, SetPriority(w, t, PrioUrgent))
    ELSE [w |-> w, returned |-> FALSE]

\* lines 88-90 with the normal sub-window begun one piece early, on the last
\* urgent piece
RECURSIVE NormalLoopOverlapping(_, _, _)
NormalLoopOverlapping(o, size, w) ==
    IF o < size + PieceLength - 1
    THEN NormalLoopOverlapping(o + PieceLength, size,
             [SetPriority(w, w.tail - 1, PrioNormal) EXCEPT !.tail = w.tail + 1])
    ELSE w

\* lines 88-90 with the bound one piece length too far
RECURSIVE NormalLoopOneMore(_, _, _)
NormalLoopOneMore(o, size, w) ==
    IF o < size + 2 * PieceLength - 1
    THEN NormalLoopOneMore(o + PieceLength, size,
                           SetPriority(w, w.tail, PrioNormal))
    ELSE w

\* lines 88-90
RECURSIVE NormalLoop(_, _, _)
NormalLoop(o, size, w) ==
    IF o < size + PieceLength - 1
    THEN NormalLoop(o + PieceLength, size, SetPriority(w, w.tail, PrioNormal))
    ELSE w

\* jump(piece, size), lines 70-91: the new cursor, the new priorities and the
\* piece_priority calls made
Jump(piece, size) ==
    LET tail == MoveToNextUnfinished(piece)
    IN  IF tail >= NumPieces
        THEN [cursor |-> cursor, prio |-> prio, calls |-> <<>>]
        ELSE LET u == UrgentLoop(0, [prio |-> prio, calls |-> <<>>, tail |-> tail])
                 n == IF u.returned THEN u.w
                      ELSE NormalLoop((u.w.tail - piece) * PieceLength, size, u.w)
             IN  [cursor |-> tail, prio |-> n.prio, calls |-> n.calls]

\* advance() recomputing the window from piece 0 instead of from the cursor
AdvanceFromStart == Jump(0, 0)

\* advance(), lines 93-96
Advance == Jump(cursor, 0)


-----------------------------------------------------------------------------
(* The Read tracker, lines 117-130 *)

\* Read::copy without the comparison of the piece index
CopyAnyPiece(parts, piece) ==
    [i \in 1 .. Len(parts) |->
        IF ~parts[i].filled
        THEN [parts[i] EXCEPT !.filled = TRUE, !.writes = @ + 1]
        ELSE parts[i]]

\* Read::copy(piece, buffer, size): memcpy into every unfilled Part of the
\* piece; writes counts the memcpy calls into the Part's destination
Copy(parts, piece) ==
    [i \in 1 .. Len(parts) |->
        IF parts[i].piece = piece /\ ~parts[i].filled
        THEN [parts[i] EXCEPT !.filled = TRUE, !.writes = @ + 1]
        ELSE parts[i]]

\* Read::trigger leaving the loop after the first Part
TriggerFirstPart(parts) ==
    IF parts # <<>> /\ parts[1].piece \in have THEN {parts[1].piece} ELSE {}

\* Read::trigger: the pieces handed to handle.read_piece
Trigger(parts) ==
    {parts[i].piece : i \in {j \in 1 .. Len(parts) : parts[j].piece \in have}}

-----------------------------------------------------------------------------
(* The namespace, setup() lines 168-206.  A path is the sequence of its    *)
(* components: <<>> is "/", <<"d", "a">> is "/d/a".                        *)

Prefix(path, n) == SubSeq(path, 1, n)

\* lines 185-198 with the child assigned to the directory (dirs[parent] = {x})
\* instead of inserted into its set
AssignChildren(d, path) ==
    LET parents == {Prefix(path, n) : n \in 0 .. (Len(path) - 1)}
    IN  [k \in DOMAIN d \cup parents |->
            IF k \in parents THEN {path[Len(k) + 1]} ELSE d[k]]

\* lines 185-198: the children added for one file path
AddChildren(d, path) ==
    LET parents == {Prefix(path, n) : n \in 0 .. (Len(path) - 1)}
        old(k)  == IF k \in DOMAIN d THEN d[k] ELSE {}
    IN  [k \in DOMAIN d \cup parents |->
            IF k \in parents THEN old(k) \cup {path[Len(k) + 1]} ELSE d[k]]

\* lines 203-204: files["/" + path] = (file_entry, i)
AddFile(f, i) ==
    LET path == ti.files[i + 1].path
    IN  [k \in DOMAIN f \cup {path} |->
            IF k = path THEN [size |-> FileSize(i), index |-> i] ELSE f[k]]

\* the file priority the engine holds: 1 until setup has set it to 0
FilePriority(f, j) ==
    IF \E k \in DOMAIN f : f[k].index = j THEN PrioNone ELSE PrioNormal

\* the pieces a file has bytes in
FilePieces(j) ==
    {p \in Pieces : FileOffset(j) < (p + 1) * PieceLength
                    /\ p * PieceLength < FileOffset(j) + FileSize(j)}

\* libtorrent recomputing the piece priorities from the file priorities: a
\* piece gets the highest priority of the files it has bytes of
PiecePrioritiesFromFiles(f) ==
    [p \in Pieces |->
        IF \E j \in 0 .. (NumFiles - 1) :
               p \in FilePieces(j) /\ FilePriority(f, j) # PrioNone
        THEN PrioNormal ELSE PrioNone]

\* is_dir / is_file, lines 318-326
is_dir(path) == path \in DOMAIN dirs
is_file(path) == path \in DOMAIN files

-----------------------------------------------------------------------------
(* Threads *)

Readers == {"r1", "r2"}

IdleRead ==
    [pc |-> "idle", path |-> <<>>, offset |-> 0, size |-> 0, parts |-> <<>>,
     ret |-> 0]

NoAlert == [type |-> "none", piece |-> 0, i |-> 0, second |-> FALSE]
Alert(type, piece) == [type |-> type, piece |-> piece, i |-> 0, second |-> FALSE]

NoDec == [index |-> 0, offset |-> 0, length |-> 0, parts |-> <<>>]
NoOp == [op |-> "none", piece |-> 0, size |-> 0, calls |-> <<>>]

\* pthread_cancel has been called on the alert thread (line 465)
CancelPending == dpc # "idle"


-----------------------------------------------------------------------------
(* The torrents and the calls of the model *)

MiB == 2^20

\* the torrent of the concurrent model: 1 MiB pieces, two files, the second
\* one starting in the middle of piece 1; 2 pieces, the last one short
MainTorrent ==
    [piece_length |-> MiB,
     files |-> <<[path |-> <<"d", "a">>, size |-> MiB + 262144],
                 [path |-> <<"b">>,      size |-> 524288]>>]

\* (path, offset, size) of the btfs_read calls of the concurrent model
ReadArgs ==
    { <<<<"d", "a">>, 0, 4096>>,                 \* inside piece 0
      <<<<"d", "a">>, MiB - 16, 32>>,            \* pieces 0 and 1
      <<<<"b">>, 0, 4096>>,                      \* inside piece 1
      <<<<"d", "a">>, MiB + 262144, 4096>>,      \* offset = file size
      <<<<"b">>, 8, 0>> }                        \* length 0

-----------------------------------------------------------------------------
(* The engine: libtorrent's session thread *)

Post(a) == /\ Len(alerts) < MaxAlerts
           /\ alerts' = Append(alerts, a)

\* session->async_add_torrent (line 454) answered: a .torrent file brings the
\* metadata with it, a magnet link does not
EngineAddTorrent ==
    /\ meta = "none"
    /\ \E m \in {"added", "ready"} : meta' = m
    /\ Post(Alert("torrent_added", 0))
    /\ UNCHANGED <<ti, have, prio, reqs, cursor, files, dirs, reads, rd, lock,
                   apc, cur, dpc, dec, wop>>

EngineMetadataReceived ==
    /\ meta = "added"
    /\ meta' = "ready"
    /\ Post(Alert("metadata_received", 0))
    /\ UNCHANGED <<ti, have, prio, reqs, cursor, files, dirs, reads, rd, lock,
                   apc, cur, dpc, dec, wop>>

EngineMetadataFailed ==
    /\ meta = "added"
    /\ Post(Alert("metadata_failed", 0))
    /\ UNCHANGED <<ti, meta, have, prio, reqs, cursor, files, dirs, reads, rd,
                   lock, apc, cur, dpc, dec, wop>>

\* a piece passes its hash check: have_piece becomes true, then the alert
EnginePieceFinished(p) ==
    /\ meta = "ready"
    /\ p \in Pieces \ have
    /\ have' = have \cup {p}
    /\ Post(Alert("piece_finished", p))
    /\ UNCHANGED <<ti, meta, prio, reqs, cursor, files, dirs, reads, rd, lock,
                   apc, cur, dpc, dec, wop>>

\* a read_piece request is answered with a read_piece_alert
EngineReadPiece(p) ==
    /\ p \in reqs
    /\ reqs' = reqs \ {p}
    /\ Post(Alert("read_piece", p))
    /\ UNCHANGED <<ti, meta, have, prio, cursor, files, dirs, reads, rd, lock,
                   apc, cur, dpc, dec, wop>>

-----------------------------------------------------------------------------
(* btfs_read, lines 387-416, one action per stretch between blocking points *)

\* lines 398-407: lock, build the tracker, register it, Read::read up to the
\* first pthread_cond_wait or to its return
ReadLocked(r, path, offset, size) ==
    \E parts \in {ReadParts(0, files[path].index, offset,
                            ClampSize(files[path].index, size))} :
      \E me \in {[IdleRead EXCEPT !.path = path, !.offset = offset,
                                  !.size = size, !.parts = parts]} :
        /\ reads' = Append(reads, r)
        /\ IF SizeOf(parts) <= 0
           THEN /\ rd' = [rd EXCEPT ![r] = [me EXCEPT !.pc = "afterRead"]]
                /\ lock' = r
                /\ UNCHANGED <<reqs, cursor, prio>>
           ELSE /\ reqs' = reqs \cup Trigger(parts)
                /\ \E j \in {Jump(parts[1].piece, SizeOf(parts))} :
                      /\ cursor' = j.cursor
                      /\ prio' = j.prio
                /\ IF Finished(parts)
                   THEN /\ rd' = [rd EXCEPT ![r] = [me EXCEPT
                                     !.pc = "afterRead", !.ret = SizeOf(parts)]]
                        /\ lock' = r
                   ELSE /\ rd' = [rd EXCEPT ![r] = [me EXCEPT !.pc = "waiting"]]
                        /\ lock' = "free"

\* btfs_read entered, lines 392-398: the path checks, made without the mutex,
\* then pthread_mutex_lock; the thread goes on at once when the mutex is free
ReadCall(r, path, offset, size) ==
    /\ rd[r].pc = "idle"
    /\ is_dir(path) \/ is_file(path)
    /\ ~is_dir(path)
    /\ IF lock = "free"
       THEN ReadLocked(r, path, offset, size)
       ELSE /\ rd' = [rd EXCEPT ![r] = [IdleRead EXCEPT !.pc = "lockwait",
                         !.path = path, !.offset = offset, !.size = size]]
            /\ UNCHANGED <<reads, lock, reqs, cursor, prio>>
    /\ UNCHANGED <<ti, meta, have, alerts, files, dirs, apc, cur, dpc, dec, wop>>

\* pthread_mutex_lock of line 398 returns to a thread that had to wait for it
ReadLockAcquired(r) ==
    /\ rd[r].pc = "lockwait"
    /\ lock = "free"
    /\ ReadLocked(r, rd[r].path, rd[r].offset, rd[r].size)
    /\ UNCHANGED <<ti, meta, have, alerts, files, dirs, apc, cur, dpc, dec, wop>>

\* lines 161-165 with a wait that does not release the mutex when the thread
\* goes back to waiting
ReadWakeKeepsMutex(r) ==
    /\ rd[r].pc = "woken"
    /\ lock = "free"
    /\ lock' = r
    /\ IF Finished(rd[r].parts)
       THEN rd' = [rd EXCEPT ![r].pc = "afterRead",
                             ![r].ret = SizeOf(rd[r].parts)]
       ELSE rd' = [rd EXCEPT ![r].pc = "waiting"]
    /\ UNCHANGED <<ti, meta, have, prio, reqs, alerts, cursor, files, dirs,
                   reads, apc, cur, dpc, dec, wop>>

\* lines 161-165: woken inside pthread_cond_wait, the mutex re-acquired, the
\* predicate checked again
ReadWake(r) ==
    /\ rd[r].pc = "woken"
    /\ lock = "free"
    /\ IF Finished(rd[r].parts)
       THEN /\ rd' = [rd EXCEPT ![r].pc = "afterRead",
                                ![r].ret = SizeOf(rd[r].parts)]
            /\ lock' = r
       ELSE /\ rd' = [rd EXCEPT ![r].pc = "waiting"]
            /\ lock' = "free"
    /\ UNCHANGED <<ti, meta, have, prio, reqs, alerts, cursor, files, dirs,
                   reads, apc, cur, dpc, dec, wop>>

\* btfs_read without line 409: the tracker stays in the list
RemoveNothing(list, r) == list

\* std::list::remove
Remove(list, r) == SelectSeq(list, LAMBDA x : x # r)

\* lines 409-415: deregister, delete, unlock, return
ReadReturn(r) ==
    /\ rd[r].pc = "afterRead"
    /\ reads' = Remove(reads, r)
    /\ rd' = [rd EXCEPT ![r] = IdleRead]
    /\ lock' = "free"
    /\ UNCHANGED <<ti, meta, have, prio, reqs, alerts, cursor, files, dirs,
                   apc, cur, dpc, dec, wop>>


-----------------------------------------------------------------------------
(* The alert thread, alert_queue_loop lines 272-316 and the handlers *)

\* lines 280-285: wait_for_alert, pop_alert, the switch
AlertPop ==
    /\ apc = "poll"
    /\ alerts # <<>>
    /\ cur' = Head(alerts)
    /\ alerts' = Tail(alerts)
    /\ apc' = "handle"
    /\ UNCHANGED <<ti, meta, have, prio, reqs, cursor, files, dirs, reads, rd,
                   lock, dpc, dec, wop>>

\* handle_read_piece_alert, lines 212-218: lock, copy into every tracker, unlock
HandleReadPiece ==
    /\ apc = "handle"
    /\ cur.type = "read_piece"
    /\ lock = "free"
    /\ rd' = [r \in Readers |->
                 IF \E i \in 1 .. Len(reads) : reads[i] = r
                 THEN [rd[r] EXCEPT !.parts = Copy(rd[r].parts, cur.piece)]
                 ELSE rd[r]]
    /\ apc' = "broadcast"
    /\ UNCHANGED <<ti, meta, have, prio, reqs, alerts, cursor, files, dirs,
                   reads, lock, cur, dpc, dec, wop>>

\* line 221: pthread_cond_broadcast, after the unlock
Broadcast ==
    /\ apc = "broadcast"
    /\ rd' = [r \in Readers |->
                 IF rd[r].pc = "waiting" THEN [rd[r] EXCEPT !.pc = "woken"]
                 ELSE rd[r]]
    /\ apc' = "poll"
    /\ cur' = NoAlert
    /\ UNCHANGED <<ti, meta, have, prio, reqs, alerts, cursor, files, dirs,
                   reads, lock, dpc, dec, wop>>

\* handle_piece_finished_alert without the loop of lines 230-232
TriggerNothing == {}

\* lines 230-232: trigger() of every pending tracker
TriggerAll ==
    UNION {Trigger(rd[reads[i]].parts) : i \in 1 .. Len(reads)}

\* handle_piece_finished_alert, lines 228-237
HandlePieceFinished ==
    /\ apc = "handle"
    /\ cur.type = "piece_finished"
    /\ lock = "free"
    /\ reqs' = reqs \cup TriggerAll
    /\ \E j \in {Advance} :
          /\ cursor' = j.cursor
          /\ prio' = j.prio
    /\ apc' = "poll"
    /\ cur' = NoAlert
    /\ UNCHANGED <<ti, meta, have, alerts, files, dirs, reads, rd, lock, dpc,
                   dec, wop>>

\* the namespace holds every file of the torrent: a setup() has completed
NamespaceBuilt ==
    \A i \in 0 .. (NumFiles - 1) : ti.files[i + 1].path \in DOMAIN files

\* handle_torrent_added_alert, lines 249-256
HandleTorrentAdded ==
    /\ apc = "handle"
    /\ cur.type = "torrent_added"
    /\ lock = "free"
    /\ IF meta = "ready"
       THEN /\ lock' = "alert"
            /\ apc' = "setup"
            /\ cur' = [cur EXCEPT !.i = 0, !.second = NamespaceBuilt]
       ELSE /\ apc' = "poll"
            /\ cur' = NoAlert
            /\ lock' = lock
    /\ UNCHANGED <<ti, meta, have, prio, reqs, alerts, cursor, files, dirs,
                   reads, rd, dpc, dec, wop>>

\* handle_metadata_received_alert, lines 263-267
HandleMetadataReceived ==
    /\ apc = "handle"
    /\ cur.type = "metadata_received"
    /\ lock = "free"
    /\ lock' = "alert"
    /\ apc' = "setup"
    /\ cur' = [cur EXCEPT !.i = 0, !.second = NamespaceBuilt]
    /\ UNCHANGED <<ti, meta, have, prio, reqs, alerts, cursor, files, dirs,
                   reads, rd, dpc, dec, wop>>

\* setup(), one iteration of the loop of lines 177-205, the mutex held; the
\* unlock of the handler follows the last iteration.  A file_priority call
\* that changes the file's priority makes the engine recompute every piece
\* priority; one that repeats the priority the file has may do so or not.
SetupFile ==
    /\ apc = "setup"
    /\ LET i == cur.i
       IN  /\ dirs' = AddChildren(dirs, ti.files[i + 1].path)
           /\ files' = AddFile(files, i)
           /\ \/ prio' = PiecePrioritiesFromFiles(AddFile(files, i))
              \/ /\ FilePriority(files, i) = PrioNone
                 /\ prio' = prio
           /\ IF i + 1 < NumFiles
              THEN /\ cur' = [cur EXCEPT !.i = i + 1]
                   /\ UNCHANGED <<apc, lock>>
              ELSE /\ cur' = NoAlert
                   /\ apc' = "poll"
                   /\ lock' = "free"
    /\ UNCHANGED <<ti, meta, have, reqs, alerts, cursor, reads, rd, dpc, dec,
                   wop>>

\* handle_metadata_failed_alert, lines 240-243
HandleMetadataFailed ==
    /\ apc = "handle"
    /\ cur.type = "metadata_failed"
    /\ apc' = "poll"
    /\ cur' = NoAlert
    /\ UNCHANGED <<ti, meta, have, prio, reqs, alerts, cursor, files, dirs,
                   reads, rd, lock, dpc, dec, wop>>

\* the alert thread acts on the cancellation request at a cancellation point:
\* the timed wait inside wait_for_alert (line 280), or the printf that opens
\* handle_read_piece_alert and handle_piece_finished_alert (lines 210, 226).
\* pthread_mutex_lock is not a cancellation point.
AlertCancelled ==
    /\ CancelPending
    /\ \/ apc = "poll"
       \/ apc = "handle" /\ cur.type \in {"read_piece", "piece_finished"}
    /\ apc' = "cancelled"
    /\ UNCHANGED <<ti, meta, have, prio, reqs, alerts, cursor, files, dirs,
                   reads, rd, lock, cur, dpc, dec, wop>>

-----------------------------------------------------------------------------
(* btfs_destroy, lines 461-476 *)

\* lines 463-465: lock, pthread_cancel
DestroyCancel ==
    /\ dpc = "idle"
    /\ lock = "free"
    /\ lock' = "destroy"
    /\ dpc' = "join"
    /\ UNCHANGED <<ti, meta, have, prio, reqs, alerts, cursor, files, dirs,
                   reads, rd, apc, cur, dec, wop>>

\* lines 466-475: pthread_join returns once the alert thread has ended, unlock
DestroyJoin ==
    /\ dpc = "join"
    /\ apc = "cancelled"
    /\ lock' = "free"
    /\ dpc' = "done"
    /\ UNCHANGED <<ti, meta, have, prio, reqs, alerts, cursor, files, dirs,
                   reads, rd, apc, cur, dec, wop>>

-----------------------------------------------------------------------------
(* The concurrent model *)

Init ==
    /\ ti = MainTorrent
    /\ meta = "none"
    /\ have = {}
    /\ prio = [p \in Pieces |-> PrioNormal]
    /\ reqs = {}
    /\ alerts = <<>>
    /\ cursor = 0
    /\ files = <<>>
    /\ dirs = <<>>
    /\ reads = <<>>
    /\ rd = [r \in Readers |-> IdleRead]
    /\ lock = "free"
    /\ apc = "poll"
    /\ cur = NoAlert
    /\ dpc = "idle"
    /\ dec = NoDec
    /\ wop = NoOp

EngineStep ==
    \/ EngineAddTorrent
    \/ EngineMetadataReceived
    \/ EngineMetadataFailed
    \/ \E p \in Pieces : EnginePieceFinished(p)
    \/ \E p \in Pieces : EngineReadPiece(p)

ReaderStep ==
    \/ \E r \in Readers, a \in ReadArgs : ReadCall(r, a[1], a[2], a[3])
    \/ \E r \in Readers : ReadLockAcquired(r)
    \/ \E r \in Readers : ReadWake(r)
    \/ \E r \in Readers : ReadReturn(r)

AlertStep ==
    \/ AlertPop
    \/ HandleReadPiece
    \/ Broadcast
    \/ HandlePieceFinished
    \/ HandleTorrentAdded
    \/ HandleMetadataReceived
    \/ SetupFile
    \/ HandleMetadataFailed

\* the process runs until btfs_destroy has returned
Running == dpc # "done" /\ (EngineStep \/ ReaderStep \/ AlertStep)

Next == Running \/ AlertCancelled \/ DestroyCancel \/ DestroyJoin

Spec == Init /\ [][Next]_vars


-----------------------------------------------------------------------------
(* The namespace and the priorities a completed setup() leaves *)

RECURSIVE FilesUpTo(_)
FilesUpTo(n) == IF n = 0 THEN <<>> ELSE AddFile(FilesUpTo(n - 1), n - 1)

RECURSIVE DirsUpTo(_)
DirsUpTo(n) ==
    IF n = 0 THEN <<>> ELSE AddChildren(DirsUpTo(n - 1), ti.files[n].path)

\* the state once the first setup() has returned and nothing is downloaded
InitAfterSetup ==
    /\ meta = "ready"
    /\ have = {}
    /\ prio = [p \in Pieces |-> PrioNone]
    /\ reqs = {}
    /\ alerts = <<>>
    /\ cursor = 0
    /\ files = FilesUpTo(NumFiles)
    /\ dirs = DirsUpTo(NumFiles)
    /\ reads = <<>>
    /\ rd = [r \in Readers |-> IdleRead]
    /\ lock = "free"
    /\ apc = "poll"
    /\ cur = NoAlert
    /\ dpc = "idle"
    /\ dec = NoDec
    /\ wop = NoOp

-----------------------------------------------------------------------------
(* The Read constructor run alone, on every small torrent of two files *)

DecomposeTorrents ==
    { [piece_length |-> pl,
       files |-> <<[path |-> <<"d", "a">>, size |-> s1],
                   [path |-> <<"b">>,      size |-> s2]>>] :
      pl \in {2, 3}, s1 \in 1 .. MaxFileSize, s2 \in 1 .. MaxFileSize }

InitDecompose ==
    /\ ti \in DecomposeTorrents
    /\ InitAfterSetup

\* btfs_read lines 400-402: new Read(buf, index, offset, min(size, file size))
DecomposeCall(index, offset, size) ==
    /\ dec' = [index |-> index, offset |-> offset, length |-> size,
               parts |-> ReadParts(0, index, offset, ClampSize(index, size))]
    /\ UNCHANGED <<ti, meta, have, prio, reqs, alerts, cursor, files, dirs,
                   reads, rd, lock, apc, cur, dpc, wop>>

NextDecompose ==
    \E index \in 0 .. (NumFiles - 1), offset \in 0 .. MaxArg, size \in 0 .. MaxArg :
        DecomposeCall(index, offset, size)

SpecDecompose == InitDecompose /\ [][NextDecompose]_vars

-----------------------------------------------------------------------------
(* The scheduler run alone: jump as Read::read calls it (line 159), advance, *)
(* and pieces completing, on one-file torrents of WindowPieces pieces.       *)

WindowTorrents ==
    { [piece_length |-> pl,
       files |-> <<[path |-> <<"f">>, size |-> WindowPieces * pl - 4096]>>] :
      pl \in {MiB, 2 * MiB} }

InitWindow ==
    /\ ti \in WindowTorrents
    /\ InitAfterSetup

\* lines 152-159: a read of the one file, up to its jump
WindowJump(offset, size) ==
    \E parts \in {ReadParts(0, 0, offset, ClampSize(0, size))} :
        /\ SizeOf(parts) > 0
        /\ \E j \in {Jump(parts[1].piece, SizeOf(parts))} :
              /\ cursor' = j.cursor
              /\ prio' = j.prio
              /\ wop' = [op |-> "jump", piece |-> parts[1].piece,
                         size |-> SizeOf(parts), calls |-> j.calls]
        /\ UNCHANGED <<ti, meta, have, reqs, alerts, files, dirs, reads, rd,
                       lock, apc, cur, dpc, dec>>

\* line 235: advance()
WindowAdvance ==
    \E j \in {Advance} :
        /\ cursor' = j.cursor
        /\ prio' = j.prio
        /\ wop' = [op |-> "advance", piece |-> cursor, size |-> 0,
                   calls |-> j.calls]
        /\ UNCHANGED <<ti, meta, have, reqs, alerts, files, dirs, reads, rd,
                       lock, apc, cur, dpc, dec>>

\* a piece completes
WindowPieceFinished(p) ==
    /\ p \in Pieces \ have
    /\ have' = have \cup {p}
    /\ wop' = NoOp
    /\ UNCHANGED <<ti, meta, prio, reqs, alerts, cursor, files, dirs, reads,
                   rd, lock, apc, cur, dpc, dec>>

WindowOffsets == {k * PieceLength + 4096 : k \in 0 .. (NumPieces - 1)}
WindowSizes == {4096, 2 * MiB + 1, 4 * MiB}

NextWindow ==
    \/ \E offset \in WindowOffsets, size \in WindowSizes : WindowJump(offset, size)
    \/ WindowAdvance
    \/ \E p \in Pieces : WindowPieceFinished(p)

SpecWindow == InitWindow /\ [][NextWindow]_vars


-----------------------------------------------------------------------------
(* Properties *)

Range(seq) == {seq[i] : i \in 1 .. Len(seq)}

\* the torrent byte at which Part i of a tracker begins
PartBegin(parts, i) == parts[i].piece * PieceLength + parts[i].start

\* C3. Decomposition completeness: for every file, every offset O inside it
\* and every length L, the Parts built for the read have lengths summing to
\* min(L, F - O), cover [O, O + min(L, F - O)) of the file contiguously, are
\* in ascending piece order, and each lies inside one piece.
DecompositionComplete ==
    LET F     == FileSize(dec.index)
        parts == dec.parts
    IN  dec.offset < F =>
          /\ SizeOf(parts) = Min(dec.length, F - dec.offset)
          /\ \A i \in 1 .. Len(parts) :
                /\ PartBegin(parts, i) = FileOffset(dec.index) + dec.offset
                                         + SizeOf(SubSeq(parts, 1, i - 1))
                /\ parts[i].length > 0
                /\ parts[i].start + parts[i].length <= PieceSize(parts[i].piece)
                /\ parts[i].buf = SizeOf(SubSeq(parts, 1, i - 1))
          /\ \A i \in 1 .. (Len(parts) - 1) : parts[i].piece < parts[i + 1].piece


\* the pieces at or after s that are not downloaded
Undownloaded(s) == {p \in Pieces : p >= s /\ p \notin have}

\* C7. Window monotonic lead: an advance() never decreases the cursor and
\* never sets it to a downloaded piece; the cursor stays on a downloaded piece
\* only when no piece at or after it is left to download.  Pieces only go
\* from undownloaded to downloaded, so a piece downloaded at an earlier
\* advance() is downloaded at this one.
WindowMonotonicLead ==
    [][wop'.op = "advance" =>
          /\ cursor' >= cursor
          /\ cursor' # cursor => cursor' \notin have'
          /\ cursor' \in have' => Undownloaded(cursor) = {}]_vars

\* an advance() has moved the cursor over downloaded pieces
WindowMonotonicLeadWitness ==
    /\ wop.op = "advance"
    /\ wop.piece < cursor
    /\ wop.piece \in have

\* line 81: the number of pieces of the urgent sub-window
UrgentCount == (UrgentBytes + PieceLength - 1) \div PieceLength

\* the first UrgentCount undownloaded pieces at or after s
UrgentPieces(s) ==
    {p \in Undownloaded(s) :
        Cardinality({q \in Undownloaded(s) : q < p}) < UrgentCount}

\* the pieces of the torrent the last call placed in the normal sub-window
NormalPieces ==
    {wop.calls[i].piece :
        i \in {k \in 1 .. Len(wop.calls) : wop.calls[k].prio = PrioNormal}}
    \cap Pieces

\* C8. Urgent sub-window: after jump(s, n) that finds an undownloaded piece at
\* or after s, the first ceil(urgent budget / piece length) undownloaded
\* pieces at or after s (all of them if fewer remain) have the maximum
\* priority, strictly above every piece the call placed in the normal
\* sub-window.
UrgentSubWindow ==
    (wop.op \in {"jump", "advance"} /\ Undownloaded(wop.piece) # {}) =>
        \A p \in UrgentPieces(wop.piece) :
            /\ prio[p] = PrioUrgent
            /\ \A q \in NormalPieces : prio[p] > prio[q]

\* a jump over a downloaded piece has filled the urgent sub-window and placed
\* pieces in the normal sub-window
UrgentSubWindowWitness ==
    /\ wop.op = "jump"
    /\ Cardinality(UrgentPieces(wop.piece)) = UrgentCount
    /\ NormalPieces # {}
    /\ \E p \in have : wop.piece <= p /\ \E q \in UrgentPieces(wop.piece) : p < q


-----------------------------------------------------------------------------
(* Properties of the concurrent model *)

\* the thread has a tracker: it is between the constructor and the delete
Tracking(x) == x.pc \in {"waiting", "woken", "afterRead"}

\* C2. A read never returns a positive byte count while a Part of its
\* tracker is unfilled: when Read::read has returned n > 0, every Part is
\* filled and n is the sum of the Part lengths.
ReadReturnsFilled ==
    \A r \in Readers :
        (rd[r].pc = "afterRead" /\ rd[r].ret > 0) =>
            /\ \A i \in 1 .. Len(rd[r].parts) : rd[r].parts[i].filled
            /\ rd[r].ret = SizeOf(rd[r].parts)

\* a read of two Parts has returned
ReadReturnsFilledWitness ==
    \E r \in Readers :
        rd[r].pc = "afterRead" /\ rd[r].ret > 0 /\ Len(rd[r].parts) = 2

\* the step in which thread r builds its tracker (lines 400-407)
Starts(r) == rd[r].pc \in {"idle", "lockwait"} /\ Tracking(rd'[r])

\* C4, as claimed.  Immediate completion: a read whose pieces are all
\* downloaded when the call starts returns without entering the wait.
ImmediateCompletion ==
    [][\A r \in Readers :
          (Starts(r) /\ \A i \in 1 .. Len(rd'[r].parts) :
                            rd'[r].parts[i].piece \in have)
          => rd'[r].pc # "waiting"]_vars

\* C4, amended.  A read with at least one Part enters the wait, whatever is
\* downloaded; before it waits it has requested the delivery of every piece
\* of its Parts that is downloaded, so a read whose pieces are all downloaded
\* waits for piece deliveries only.
ImmediateRequest ==
    [][\A r \in Readers :
          (Starts(r) /\ rd'[r].parts # <<>>) =>
              /\ rd'[r].pc = "waiting"
              /\ \A i \in 1 .. Len(rd'[r].parts) :
                    rd'[r].parts[i].piece \in have
                    => rd'[r].parts[i].piece \in reqs']_vars

\* a read of two downloaded pieces waits, both deliveries requested
ImmediateRequestWitness ==
    \E r \in Readers :
        /\ rd[r].pc = "waiting"
        /\ Len(rd[r].parts) = 2
        /\ \A i \in 1 .. 2 : /\ ~rd[r].parts[i].filled
                             /\ rd[r].parts[i].piece \in have
                             /\ rd[r].parts[i].piece \in reqs

\* the call of thread record x is for offset >= file size or for length 0
OutOfRange(x) ==
    /\ x.pc # "idle"
    /\ x.size = 0 \/ x.offset >= files[x.path].size

FilledDiscipline ==
    [][\A r \in Readers :
          (Tracking(rd[r]) /\ Tracking(rd'[r])) =>
              /\ Len(rd'[r].parts) = Len(rd[r].parts)
              /\ \A i \in 1 .. Len(rd[r].parts) :
                    LET old == rd[r].parts[i]
                        new == rd'[r].parts[i]
                    IN  /\ [new EXCEPT !.filled = old.filled,
                                       !.writes = old.writes] = old
                        /\ old.filled => new.filled
                        /\ new.writes = IF new.filled THEN 1 ELSE 0
                        /\ new.filled # old.filled =>
                              /\ apc = "handle"
                              /\ apc' = "broadcast"
                              /\ cur.type = "read_piece"
                              /\ cur.piece = old.piece]_vars

\* a piece has been delivered again to a tracker that holds a filled Part of
\* it and an unfilled Part of another piece
FilledDisciplineWitness ==
    \E r \in Readers :
        /\ rd[r].pc \in {"waiting", "woken"}
        /\ Len(rd[r].parts) = 2
        /\ rd[r].parts[1].filled
        /\ ~rd[r].parts[2].filled
        /\ apc = "broadcast"
        /\ cur.piece = rd[r].parts[1].piece

\* C9. Idempotent namespace build: a setup() that runs when the namespace is
\* built changes neither the path-to-file map nor the path-to-children map.
IdempotentNamespace ==
    [][(apc = "setup" /\ cur.second) => (files' = files /\ dirs' = dirs)]_vars

\* a second setup() has run its first iteration
IdempotentNamespaceWitness ==
    /\ apc = "setup"
    /\ cur.second
    /\ cur.i = 1

\* C10. Shutdown completes: once btfs_destroy has cancelled the alert thread
\* and waits in pthread_join, the alert thread has ended or can take a step
\* that leads it to a cancellation point.
ShutdownCompletes ==
    (dpc = "join" /\ apc # "cancelled") => ENABLED (AlertStep \/ AlertCancelled)

-----------------------------------------------------------------------------
(* The mounted file system under fair scheduling, before btfs_destroy *)

\* the file system is mounted as soon as setup() has returned
InitLive == ti = MainTorrent /\ InitAfterSetup

\* the alert thread once the metadata is there: no setup() any more
AlertLive == AlertPop \/ HandleReadPiece \/ Broadcast \/ HandlePieceFinished

\* the btfs_read calls of the fair model: one over pieces 0 and 1, one
\* inside piece 1
LiveArgs ==
    { <<<<"d", "a">>, MiB - 16, 32>>,
      <<<<"b">>, 0, 4096>> }

NextLive ==
    \/ \E p \in Pieces : EnginePieceFinished(p)
    \/ \E p \in Pieces : EngineReadPiece(p)
    \/ \E r \in Readers, a \in LiveArgs : ReadCall(r, a[1], a[2], a[3])
    \/ \E r \in Readers : ReadLockAcquired(r)
    \/ \E r \in Readers : ReadWake(r)
    \/ \E r \in Readers : ReadReturn(r)
    \/ AlertLive

\* the piece indices of MainTorrent
MainPieces ==
    0 .. ((MainTorrent.files[1].size + MainTorrent.files[2].size
           + MainTorrent.piece_length - 1) \div MainTorrent.piece_length - 1)

\* thread r goes on inside btfs_read
InRead(r) == ReadLockAcquired(r) \/ ReadWake(r) \/ ReadReturn(r)

\* The alert thread is scheduled and gets the mutex when it is free again and
\* again; the engine downloads the pieces and answers the read_piece of every
\* piece; a thread inside btfs_read is scheduled and gets the mutex.  Nothing
\* makes a thread call btfs_read.
Fairness ==
    /\ SF_vars(AlertLive)
    /\ SF_vars(\E p \in MainPieces : EnginePieceFinished(p))
    /\ \A p \in MainPieces : SF_vars(EngineReadPiece(p))
    /\ \A r \in Readers : SF_vars(InRead(r))

LiveSpec == InitLive /\ [][NextLive]_vars /\ Fairness

\* C1. Read liveness: under fair scheduling, with every piece eventually
\* downloaded and every requested delivery eventually dispatched, a thread
\* inside btfs_read eventually has its tracker deregistered and is back from
\* the call, whatever the other threads read.
ReadLiveness ==
    \A r \in Readers :
        (rd[r].pc # "idle") ~> (rd[r].pc = "idle" /\ r \notin Range(reads))

\* a read that had to wait has all its Parts filled and is about to return
\* while the other thread still waits
ReadLivenessWitness ==
    \E r, o \in Readers :
        /\ rd[r].pc = "afterRead"
        /\ rd[r].ret > 0
        /\ rd[o].pc \in {"waiting", "woken"}
        /\ ~Finished(rd[o].parts)

-----------------------------------------------------------------------------
(* Properties of the scheduler, continued *)

\* the smallest element of a non-empty set of piece indices
Lowest(S) == CHOOSE p \in S : \A q \in S : p <= q

\* C11. Cursor placement: jump(s, n) sets the cursor to the smallest
\* undownloaded piece at or after s when there is one; when every piece at or
\* after s is downloaded the call changes neither the cursor nor any piece
\* priority.
CursorPlacement ==
    [][wop'.op \in {"jump", "advance"} =>
          IF Undownloaded(wop'.piece) # {}
          THEN cursor' = Lowest(Undownloaded(wop'.piece))
          ELSE cursor' = cursor /\ prio' = prio]_vars

\* a jump to a downloaded tail of the torrent has left the cursor on an
\* earlier piece that is not downloaded
CursorPlacementWitness ==
    /\ wop.op = "jump"
    /\ Undownloaded(wop.piece) = {}
    /\ cursor < wop.piece
    /\ cursor \notin have


\* the indices the last call passed to piece_priority with priority p
CallPieces(p) ==
    {wop.calls[i].piece : i \in {k \in 1 .. Len(wop.calls) : wop.calls[k].prio = p}}

\* the index after the last urgent piece of the last call: "tail" at line 88
UrgentEnd == Lowest({t \in 1 .. NumPieces : \A q \in CallPieces(PrioUrgent) : q < t})

\* the last call has run its urgent loop to the end (no return at line 83)
UrgentComplete ==
    /\ wop.op \in {"jump", "advance"}
    /\ Cardinality(Undownloaded(wop.piece)) >= UrgentCount

\* C12, as claimed.  Normal sub-window size: after jump(s, n) with n > 0 and
\* at least n bytes of pieces left after the urgent sub-window, the pieces
\* set to priority 1 are a run that starts right after the urgent sub-window
\* and spans at least n bytes; with n <= 0 no piece is set to priority 1.
NormalSubWindowSize ==
    UrgentComplete =>
        /\ (wop.size > 0 /\ (NumPieces - UrgentEnd) * PieceLength >= wop.size) =>
              /\ \A q \in CallPieces(PrioNormal) :
                    \A t \in UrgentEnd .. q : t \in CallPieces(PrioNormal)
              /\ Cardinality(CallPieces(PrioNormal)) * PieceLength >= wop.size
        /\ wop.size <= 0 => CallPieces(PrioNormal) = {}

\* C12, amended.  After jump(s, n) that completes its urgent sub-window, the
\* indices set to priority 1 are exactly the consecutive indices q after the
\* last urgent piece with (q - s) * piece_length < n + piece_length - 1: the
\* n bytes are counted from piece s, not from the end of the urgent
\* sub-window.  A jump that ends inside the urgent loop sets none.
NormalSubWindowFromStart ==
    /\ UrgentComplete =>
          CallPieces(PrioNormal) =
              {q \in wop.piece .. (wop.piece + wop.size \div PieceLength + 1) :
                  /\ q >= UrgentEnd
                  /\ (q - wop.piece) * PieceLength < wop.size + PieceLength - 1}
    /\ (wop.op \in {"jump", "advance"} /\ ~UrgentComplete) =>
          CallPieces(PrioNormal) = {}

\* a jump has set pieces to priority 1 that span less than the read size
NormalSubWindowFromStartWitness ==
    /\ UrgentComplete
    /\ wop.op = "jump"
    /\ CallPieces(PrioNormal) # {}
    /\ Cardinality(CallPieces(PrioNormal)) * PieceLength < wop.size
    /\ wop.piece \in have


\* the largest index the call made in this step passed to piece_priority
LastCalled == CHOOSE p \in CallPieces(PrioUrgent) \cup CallPieces(PrioNormal) :
                  \A q \in CallPieces(PrioUrgent) \cup CallPieces(PrioNormal) : q <= p

\* C13. Recompute frame: jump(s, n) changes the priority of no piece before
\* s, of no downloaded piece its forward walk skips, and of no piece after
\* the last piece of the window it builds; a priority that drops belongs to
\* a piece of the new window.
RecomputeFrame ==
    [][wop'.op \in {"jump", "advance"} =>
          \A p \in Pieces :
              /\ p < wop'.piece => prio'[p] = prio[p]
              /\ wop'.calls = <<>> => prio'[p] = prio[p]
              /\ (wop'.calls # <<>> /\ p \in have /\ p < UrgentEnd')
                    => prio'[p] = prio[p]
              /\ (wop'.calls # <<>> /\ p > LastCalled') => prio'[p] = prio[p]
              /\ prio'[p] < prio[p] =>
                    /\ wop'.piece <= p
                    /\ p <= LastCalled'
                    /\ prio'[p] = PrioNormal]_vars

\* a jump has walked over a downloaded piece of priority 1 inside its urgent
\* sub-window and has left a piece of priority 7 before its start
RecomputeFrameWitness ==
    /\ wop.op = "jump"
    /\ \E p \in have : /\ wop.piece < p
                       /\ p < UrgentEnd
                       /\ prio[p] = PrioNormal
    /\ \E p \in Pieces : p < wop.piece /\ prio[p] = PrioUrgent

-----------------------------------------------------------------------------
(* Properties of the concurrent model, continued *)

\* C14. Metadata-ready is a no-op once the namespace is built: a setup() that
\* runs again changes nothing in the shared state: not the namespace maps,
\* not a piece priority, not the cursor, not the list of pending reads.
MetadataReadyNoOp ==
    [][(apc = "setup" /\ cur.second) =>
          /\ files' = files
          /\ dirs' = dirs
          /\ prio' = prio
          /\ cursor' = cursor
          /\ reads' = reads]_vars


\* the step in which thread r enters btfs_read and looks its path up in the
\* namespace maps (lines 392-395)
Lookup(r) == rd[r].pc = "idle" /\ rd'[r].pc # "idle"

\* C15. Single-mutex discipline: a thread reads the namespace maps only with
\* the mutex held, so no path lookup of a filesystem call is made while the
\* alert thread, holding the mutex, is in the middle of setup().
SingleMutexDiscipline ==
    [][\A r \in Readers : Lookup(r) => lock # "alert"]_vars

-----------------------------------------------------------------------------
(* The mounted file system with a fair alert thread and an engine that may  *)
(* never deliver a piece                                                   *)

\* The alert thread is scheduled and gets the mutex when it is free again and
\* again; a thread back from Read::read goes on to its unlock.  The engine
\* and the threads that wait for the mutex or inside pthread_cond_wait may
\* stop for ever.
DispatchFairness ==
    /\ SF_vars(AlertLive)
    /\ \A r \in Readers : WF_vars(ReadReturn(r))

DispatchSpec == InitLive /\ [][NextLive]_vars /\ DispatchFairness

\* thread r is blocked inside pthread_cond_wait or on its way out of it
Blocked(r) == rd[r].pc \in {"waiting", "woken"}

\* C16. Readers never block the alert thread: a read blocked in the wait
\* does not hold the mutex; with no thread between Read::read and its unlock
\* the handler of a popped alert can take the mutex at once; and whatever
\* reads are blocked, for ever or not, a popped alert is eventually handled
\* to the end.
ReadersNeverBlockDispatch ==
    /\ [](\A r \in Readers : Blocked(r) => lock # r)
    /\ []((apc = "handle" /\ \A r \in Readers : rd[r].pc # "afterRead")
             => ENABLED AlertLive)
    /\ (apc = "handle") ~> (apc = "poll")

\* an alert is popped while both reads are blocked, one of them with a Part
\* filled and a Part of a piece that is not downloaded
ReadersNeverBlockDispatchWitness ==
    /\ apc = "handle"
    /\ \A r \in Readers : Blocked(r)
    /\ \E r \in Readers :
          /\ Len(rd[r].parts) = 2
          /\ rd[r].parts[1].filled
          /\ rd[r].parts[2].piece \notin have

-----------------------------------------------------------------------------
(* Properties of the concurrent model, continued *)

\* C17. Tracker lifecycle: the list of pending reads holds, once each, the
\* trackers of the calls that have registered and not returned: a thread
\* blocked in the wait has its tracker in the list, a thread outside
\* btfs_read or not yet past the lock has none, so the handlers of the alert
\* thread never visit the tracker of a call that has returned.
TrackerLifecycle ==
    /\ Range(reads) = {r \in Readers : Tracking(rd[r])}
    /\ Len(reads) = Cardinality(Range(reads))
    /\ \A r \in Readers : rd[r].pc \in {"idle", "lockwait"} => rd[r].parts = <<>>

\* both threads are blocked, their trackers in the list in the order of
\* registration, and the alert thread is about to visit them
TrackerLifecycleWitness ==
    /\ reads = <<"r2", "r1">>
    /\ Blocked("r1")
    /\ Blocked("r2")
    /\ apc = "handle"
    /\ cur.type = "read_piece"


\* C18. Priority calls stay in range: every index jump or advance passes to
\* piece_priority is a piece of the torrent.
PriorityCallsInRange ==
    \A i \in 1 .. Len(wop.calls) : wop.calls[i].piece \in Pieces


\* C19. No waiting read is starved by priority: every piece of a Part of a
\* read blocked in the wait that is not downloaded has a non-zero priority.
NoStarvationByPriority ==
    \A r \in Readers :
        Blocked(r) =>
            \A i \in 1 .. Len(rd[r].parts) :
                rd[r].parts[i].piece \notin have
                => prio[rd[r].parts[i].piece] # PrioNone

-----------------------------------------------------------------------------
(* Properties of the Read constructor, continued *)

\* C20. Destination buffer bounds: the destinations of the Parts of a read
\* of length L start at the caller's buffer, follow one another without gap
\* or overlap and end inside the L bytes of the buffer; the Part lengths sum
\* to at most L.
DestinationInBuffer ==
    LET parts == dec.parts
    IN  /\ \A i \in 1 .. Len(parts) :
              /\ parts[i].length > 0
              /\ parts[i].buf = IF i = 1 THEN 0
                                ELSE parts[i - 1].buf + parts[i - 1].length
              /\ parts[i].buf + parts[i].length <= dec.length
        /\ SizeOf(parts) <= dec.length

\* a read that starts inside a piece and is longer than its file has three
\* Parts, the last one ending before the end of the buffer
DestinationInBufferWitness ==
    /\ Len(dec.parts) = 3
    /\ dec.parts[1].start > 0
    /\ dec.length > FileSize(dec.index)
    /\ dec.parts[3].buf + dec.parts[3].length < dec.length

=============================================================================
